--------------------------- MODULE CommandServer ---------------------------
(***************************************************************************)
(* The handle tables of a CommandServer (runtime/src/command_server.cpp):  *)
(* what every command looks up, creates and deletes, and the messages it   *)
(* writes.  The server thread executes one command at a time, in the order *)
(* of their pushes, so a command is one step.                              *)
(*                                                                         *)
(* A client names a new object before it exists: it gets the handle from   *)
(* the push, and the server may refuse to create the object.  Whether a    *)
(* name is found in a file, or bytes decode, is a choice of the model.     *)
(***************************************************************************)
EXTENDS Integers, Sequences, FiniteSets

CONSTANTS Files, Artboards, StateMachines, ViewModels,   \* handles, by kind
          None                                           \* no parent object

Handles == Files \cup Artboards \cup StateMachines \cup ViewModels

ASSUME HandleAssumption ==
    /\ None \notin Handles
    /\ Files \cap Artboards = {} /\ Files \cap StateMachines = {} /\ Files \cap ViewModels = {}
    /\ Artboards \cap StateMachines = {} /\ Artboards \cap ViewModels = {}
    /\ StateMachines \cap ViewModels = {}

VARIABLES
    m_files, m_artboards, m_stateMachines, m_viewModels,  \* the handles in each map
    m_fileDependencies,      \* file -> vector of artboards, empty if absent
    m_artboardDependencies,  \* artboard -> vector of state machines
    messages,                \* what the last command wrote to the message stream
    parent,                  \* history: the object that a live object was made from
    told                     \* history: what the client has heard of each handle

tables == <<m_files, m_artboards, m_stateMachines, m_viewModels>>
dependencies == <<m_fileDependencies, m_artboardDependencies>>
vars == <<tables, dependencies, messages, parent, told>>

Live == m_files \cup m_artboards \cup m_stateMachines \cup m_viewModels

(* A message and the handle by which the client finds its listener.        *)
Msg(name, handle) == [name |-> name, handle |-> handle]
Error(handle) ==
    Msg(CASE handle \in Files -> "fileError"
          [] handle \in Artboards -> "artboardError"
          [] handle \in StateMachines -> "stateMachineError"
          [] handle \in ViewModels -> "viewModelError", handle)
Errors == {"fileError", "artboardError", "stateMachineError", "viewModelError"}

Init ==
    /\ m_files = {} /\ m_artboards = {} /\ m_stateMachines = {} /\ m_viewModels = {}
    /\ m_fileDependencies = [f \in Files |-> <<>>]
    /\ m_artboardDependencies = [a \in Artboards |-> <<>>]
    /\ messages = <<>>
    /\ parent = [h \in Handles |-> None]
    /\ told = [h \in Handles |-> "unused"]

Used == {h \in Handles : told[h] # "unused"}

(* A command that changes no table: what it writes.                        *)
Reply(reply) ==
    /\ messages' = reply
    /\ UNCHANGED <<tables, dependencies, parent, told>>

(* MUTANT: a view model's entry is made before the look-up that may fail.  *)
RefuseKeepsObject(h, error) ==
    /\ messages' = <<error>>
    /\ told' = [told EXCEPT ![h] = "refused"]
    /\ m_viewModels' = m_viewModels \cup ({h} \cap ViewModels)
    /\ UNCHANGED <<m_files, m_artboards, m_stateMachines, dependencies, parent>>

(* The handle h that a command was to create stays without an object.      *)
Refuse(h, error) ==
    /\ messages' = <<error>>
    /\ told' = [told EXCEPT ![h] = "refused"]
    /\ UNCHANGED <<tables, dependencies, parent>>

(* An object h made from p, announced to p's listener.                     *)
Make(h, p, name) ==
    /\ messages' = <<Msg(name, p)>>
    /\ parent' = [parent EXCEPT ![h] = p]
    /\ told' = [told EXCEPT ![h] = "made"]

Forget(gone) ==
    /\ parent' = [h \in Handles |-> IF h \in gone THEN None ELSE parent[h]]
    /\ told' = [h \in Handles |-> IF h \in gone THEN "gone" ELSE told[h]]

-----------------------------------------------------------------------------
(* Artboards and their machines.                                           *)

Elements(s) == {s[i] : i \in DOMAIN s}

(* The places in P, in ascending order.                                    *)
InOrder(P) ==
    CHOOSE q \in [1..Cardinality(P) -> P] : \A i, j \in DOMAIN q : i < j => q[i] < q[j]

(* What of the vector v is still in its map, in the order of v.            *)
StillLive(v) ==
    LET places == InOrder({i \in DOMAIN v : v[i] \in m_stateMachines})
    IN  [i \in DOMAIN places |-> v[places[i]]]

(* MUTANT: the artboard is reported before its machines.                   *)
CleanupMessagesArtboardFirst(a) ==
    LET gone == StillLive(m_artboardDependencies[a])
    IN  IF a \in m_artboards
        THEN <<Msg("artboardDeleted", a)>>
                \o [i \in DOMAIN gone |-> Msg("stateMachineDeleted", gone[i])]
        ELSE <<>>

(* cleanupArtboard: the machines of a live artboard that still exist go    *)
(* first, each with its message, then the artboard.                        *)
CleanupMessages(a) ==
    LET gone == StillLive(m_artboardDependencies[a])
    IN  IF a \in m_artboards
        THEN Append([i \in DOMAIN gone |-> Msg("stateMachineDeleted", gone[i])],
                    Msg("artboardDeleted", a))
        ELSE <<>>

AllCleanupMessages(v) ==
    LET upTo[i \in 1..Len(v)] ==
            IF i = 1 THEN CleanupMessages(v[1]) ELSE upTo[i - 1] \o CleanupMessages(v[i])
    IN  IF v = <<>> THEN <<>> ELSE upTo[Len(v)]

MachinesOf(as) ==
    {s \in m_stateMachines : \E a \in as : s \in Elements(m_artboardDependencies[a])}

(* MUTANT: the machines of a deleted artboard stay in their map.           *)
CleanupKeepsMachines(as) ==
    /\ m_artboards' = m_artboards \ as
    /\ m_stateMachines' = m_stateMachines
    /\ m_artboardDependencies' =
          [a \in Artboards |-> IF a \in as THEN <<>> ELSE m_artboardDependencies[a]]

(* cleanupArtboard for each live artboard of the set as.                   *)
Cleanup(as) ==
    /\ m_artboards' = m_artboards \ as
    /\ m_stateMachines' = m_stateMachines \ MachinesOf(as)
    /\ m_artboardDependencies' =
          [a \in Artboards |-> IF a \in as THEN <<>> ELSE m_artboardDependencies[a]]

InstantiateArtboard(a, f) ==
    /\ a \notin Used /\ f \in Used
    /\ \/ /\ f \in m_files
          /\ m_artboardDependencies' = [m_artboardDependencies EXCEPT ![a] = <<>>]
          /\ m_artboards' = m_artboards \cup {a}
          /\ Make(a, f, "artboardInstantiated")
          /\ UNCHANGED <<m_files, m_stateMachines, m_viewModels, m_fileDependencies>>
       \/ Refuse(a, Error(f))

DeleteArtboard(a) ==
    LET as == {a} \cap m_artboards IN
    /\ a \in Used
    /\ messages' = CleanupMessages(a)
    /\ Cleanup(as)
    /\ Forget(as \cup MachinesOf(as))
    /\ UNCHANGED <<m_files, m_viewModels, m_fileDependencies>>

InstantiateStateMachine(s, a) ==
    /\ s \notin Used /\ a \in Used
    /\ \/ /\ a \in m_artboards
          /\ m_stateMachines' = m_stateMachines \cup {s}
          /\ m_artboardDependencies' = [m_artboardDependencies EXCEPT ![a] = Append(@, s)]
          /\ Make(s, a, "stateMachineInstantiated")
          /\ UNCHANGED <<m_files, m_artboards, m_viewModels, m_fileDependencies>>
       \/ Refuse(s, Error(a))

(* MUTANT: the deletion is announced and the machine stays in the map.     *)
DeleteStateMachineTellsOnly(s) ==
    /\ s \in Used
    /\ messages' = <<Msg("stateMachineDeleted", s)>>
    /\ Forget({s})
    /\ UNCHANGED <<tables, dependencies>>

(* Announced whether or not there was such a machine; the artboard's       *)
(* vector keeps the handle.                                                *)
DeleteStateMachine(s) ==
    /\ s \in Used
    /\ m_stateMachines' = m_stateMachines \ {s}
    /\ messages' = <<Msg("stateMachineDeleted", s)>>
    /\ Forget({s})
    /\ UNCHANGED <<m_files, m_artboards, m_viewModels, dependencies>>

-----------------------------------------------------------------------------
(* Files.                                                                  *)

LoadFile(f) ==
    /\ f \notin Used
    /\ \/ /\ m_files' = m_files \cup {f}
          /\ m_fileDependencies' = [m_fileDependencies EXCEPT ![f] = <<>>]
          /\ messages' = <<Msg("fileLoaded", f)>>
          /\ told' = [told EXCEPT ![f] = "made"]
          /\ UNCHANGED <<m_artboards, m_stateMachines, m_viewModels, m_artboardDependencies, parent>>
       \/ Refuse(f, Error(f))

(* cleanupArtboard for the artboards that the file's vector holds.         *)
DeleteFile(f) ==
    LET v == m_fileDependencies[f]
        as == Elements(v) \cap m_artboards
    IN
    /\ f \in Used
    /\ m_files' = m_files \ {f}
    /\ m_fileDependencies' = [m_fileDependencies EXCEPT ![f] = <<>>]
    /\ messages' = Append(AllCleanupMessages(v), Msg("fileDeleted", f))
    /\ Cleanup(as)
    /\ Forget({f} \cup as \cup MachinesOf(as))
    /\ UNCHANGED m_viewModels

(* listArtboards, listViewModelEnums, listViewModels,                      *)
(* listViewModelInstanceNames and listViewModelProperties, named by the    *)
(* message they answer with.  The last two also look up a view model.      *)
FileQueries == {"artboardsListed", "viewModelEnumsListed", "viewModelsListend",
                "viewModelInstanceNamesListed", "viewModelPropertiesListed"}
NamesViewModel == {"viewModelInstanceNamesListed", "viewModelPropertiesListed"}
FileQueryError(op, f) ==
    IF op = "viewModelInstanceNamesListed" THEN Msg("viewModelError", f) ELSE Error(f)
FileQuery(op, f) ==
    /\ f \in Used
    /\ \/ f \in m_files /\ Reply(<<Msg(op, f)>>)
       \/ (f \notin m_files \/ op \in NamesViewModel) /\ Reply(<<FileQueryError(op, f)>>)

-----------------------------------------------------------------------------
(* View models.                                                            *)

(* The view model named in the command, or the default one of artboard a.  *)
InstantiateViewModel(v, f, a) ==
    /\ v \notin Used /\ f \in Used /\ a \in Used \cup {None}
    /\ \/ /\ f \in m_files /\ a \in m_artboards \cup {None}
          /\ m_viewModels' = m_viewModels \cup {v}
          /\ Make(v, f, "viewModelInstanceInstantiated")
          /\ UNCHANGED <<m_files, m_artboards, m_stateMachines, dependencies>>
       \/ Refuse(v, Error(f))

(* refNestedViewModel and refListViewModel: nothing is said of a success.  *)
(* A failed look-up is told to the new handle, or to the root's.           *)
RefViewModel(v, root, complainTo) ==
    /\ v \notin Used /\ root \in Used
    /\ \/ /\ root \in m_viewModels
          /\ m_viewModels' = m_viewModels \cup {v}
          /\ told' = [told EXCEPT ![v] = "silent"]
          /\ messages' = <<>>
          /\ UNCHANGED <<m_files, m_artboards, m_stateMachines, dependencies, parent>>
       \/ Refuse(v, Error(complainTo))
RefNestedViewModel(v, root) == RefViewModel(v, root, v)
RefListViewModel(v, root) == RefViewModel(v, root, root)

DeleteViewModel(v) ==
    /\ v \in Used
    /\ m_viewModels' = m_viewModels \ {v}
    /\ messages' = <<Msg("viewModelDeleted", v)>>
    /\ Forget({v})
    /\ UNCHANGED <<m_files, m_artboards, m_stateMachines, dependencies>>

(* addViewModelListValue.                                                  *)
AddListValue(root, value) ==
    /\ root \in Used /\ value \in Used
    /\ \/ {root, value} \subseteq m_viewModels /\ Reply(<<>>)
       \/ Reply(<<Error(root)>>)

(* setViewModelInstanceValue: a view model or an artboard is looked up as  *)
(* a handle; None stands for a value of any other type and for no handle.  *)
SetViewModelInstanceValue(v, value) ==
    /\ v \in Used /\ value \in Used \cup {None}
    /\ \/ /\ v \in m_viewModels /\ value \in m_viewModels \cup m_artboards \cup {None}
          /\ Reply(<<>>)
       \/ Reply(<<Error(v)>>)

(* Commands about a property of v: subscribe, remove from and swap in a    *)
(* list; those that answer give a size, a name, or that a list is clear.   *)
ViewModelReplies == {<<>>, <<"viewModelListSizeReceived">>, <<"viewModelListCleared">>,
                     <<"viewModelInstanceViewModelNameReceived">>}
ViewModelCommand(v, reply) ==
    /\ v \in Used
    /\ \/ v \in m_viewModels /\ Reply([i \in DOMAIN reply |-> Msg(reply[i], v)])
       \/ Reply(<<Error(v)>>)

(* unsubscribeViewModelProperty looks nothing up.                          *)
Unsubscribe(v) == v \in Used /\ Reply(<<>>)

(* listViewModelPropertyValue: the value is sent also after the error of   *)
(* a property that was not found.                                          *)
ListViewModelPropertyValue(v) ==
    LET value == Msg("viewModelPropertyValueReceived", v) IN
    /\ v \in Used
    /\ \/ v \in m_viewModels /\ (Reply(<<value>>) \/ Reply(<<Error(v), value>>))
       \/ v \notin m_viewModels /\ Reply(<<Error(v)>>)

-----------------------------------------------------------------------------
(* Commands on one artboard or machine.                                    *)

(* setArtboardSize and resetArtboardSize.                                  *)
SetArtboardSize(a) ==
    /\ a \in Used
    /\ Reply(IF a \in m_artboards THEN <<>> ELSE <<Error(a)>>)

ListStateMachines(a) ==
    /\ a \in Used
    /\ Reply(<<IF a \in m_artboards THEN Msg("stateMachinesListed", a) ELSE Error(a)>>)

GetDefaultViewModel(f, a) ==
    /\ f \in Used /\ a \in Used
    /\ \/ f \in m_files /\ a \in m_artboards /\ Reply(<<Msg("defaultViewModelReceived", a)>>)
       \/ Reply(<<Error(a)>>)

BindViewModelInstance(s, v) ==
    /\ s \in Used /\ v \in Used
    /\ Reply(IF s \in m_stateMachines /\ v \in m_viewModels THEN <<>> ELSE <<Error(s)>>)

(* advanceStateMachine may find that the machine has settled; a pointer    *)
(* event says nothing.                                                     *)
AdvanceStateMachine(s) ==
    /\ s \in Used
    /\ \/ s \in m_stateMachines /\ (Reply(<<>>) \/ Reply(<<Msg("stateMachineSettled", s)>>))
       \/ s \notin m_stateMachines /\ Reply(<<Error(s)>>)
PointerEvent(s) ==
    /\ s \in Used
    /\ Reply(IF s \in m_stateMachines THEN <<>> ELSE <<Error(s)>>)

-----------------------------------------------------------------------------
FileCommand ==
    \E f \in Files :
        LoadFile(f) \/ DeleteFile(f) \/ \E op \in FileQueries : FileQuery(op, f)
ArtboardCommand ==
    \E a \in Artboards :
        \/ DeleteArtboard(a) \/ SetArtboardSize(a) \/ ListStateMachines(a)
        \/ \E f \in Files : InstantiateArtboard(a, f) \/ GetDefaultViewModel(f, a)
MachineCommand ==
    \E s \in StateMachines :
        \/ DeleteStateMachine(s) \/ AdvanceStateMachine(s) \/ PointerEvent(s)
        \/ \E a \in Artboards : InstantiateStateMachine(s, a)
        \/ \E v \in ViewModels : BindViewModelInstance(s, v)
PropertyCommand ==
    \E v \in ViewModels :
        \/ DeleteViewModel(v) \/ Unsubscribe(v) \/ ListViewModelPropertyValue(v)
        \/ \E reply \in ViewModelReplies : ViewModelCommand(v, reply)
        \/ \E value \in ViewModels \cup Artboards \cup {None} : SetViewModelInstanceValue(v, value)
        \/ \E f \in Files, a \in Artboards \cup {None} : InstantiateViewModel(v, f, a)
        \/ \E root \in ViewModels :
              RefNestedViewModel(v, root) \/ RefListViewModel(v, root) \/ AddListValue(root, v)

Next == FileCommand \/ ArtboardCommand \/ MachineCommand \/ PropertyCommand
Spec == Init /\ [][Next]_vars

-----------------------------------------------------------------------------
(* Properties.                                                             *)

(* TYPE: each map holds handles of its kind, each vector those of another. *)
TypeOK ==
    /\ m_files \subseteq Files /\ m_artboards \subseteq Artboards
    /\ m_stateMachines \subseteq StateMachines /\ m_viewModels \subseteq ViewModels
    /\ m_fileDependencies \in [Files -> Seq(Artboards)]
    /\ m_artboardDependencies \in [Artboards -> Seq(StateMachines)]
    /\ parent \in [Handles -> Handles \cup {None}]
    /\ told \in [Handles -> {"unused", "refused", "made", "silent", "gone"}]

(* No machine outlives the artboard it was made from, which it points to   *)
(* (cleanupArtboard): advancing one would read a freed artboard.           *)
MachinesHaveArtboards == \A s \in m_stateMachines : parent[s] \in m_artboards

(* The client's knowledge is exact: an announced object that was not       *)
(* reported deleted is in its map, and a map holds nothing else but the    *)
(* view models of the two ref commands, which succeed silently.            *)
KnownIsLive ==
    \A h \in Handles : h \in Live <=> told[h] \in {"made", "silent"}

(* A failed command has no effect: nothing is registered or deleted by a   *)
(* command that reports an error.                                          *)
FailureIsClean ==
    [][(\E i \in DOMAIN messages' : messages'[i].name \in Errors)
          => UNCHANGED <<tables, dependencies>>]_vars

(* Whatever leaves a map is reported, exactly once in its command, and a   *)
(* machine deleted with its artboard is reported before the artboard: a    *)
(* listener never hears of a machine whose artboard is already gone.       *)
Deletions == {"fileDeleted", "artboardDeleted", "stateMachineDeleted", "viewModelDeleted"}
ToldAt(h) == {i \in DOMAIN messages' : messages'[i].name \in Deletions /\ messages'[i].handle = h}
DeletionsAreTold ==
    [][\A h \in Live \ Live' :
          \E i \in ToldAt(h) :
              /\ ToldAt(h) = {i}
              /\ \A j \in ToldAt(parent[h]) : h \in StateMachines => i < j]_vars

=============================================================================
