----------------------------- MODULE DataBinds ------------------------------
(* The data binds of an artboard: the lists of a container                 *)
(* (data_bind_container.cpp), the dirt of a bind and the two directions in *)
(* which it applies (data_bind.cpp, context_value.hpp), and the order of   *)
(* the update pass that runs them around the update of the components      *)
(* (Artboard::updatePass).                                                 *)
(*                                                                         *)
(* A bind joins a value of a view model to a property of a component, each *)
(* bind to a property of its own.  Binds have no converter; the container  *)
(* is bound to its context and stays so.  A bind to the display of a       *)
(* layout is never hidden for canSkip and collapse: here it is a bind that *)
(* no other hides.                                                         *)
EXTENDS Integers, FiniteSets, Sequences

CONSTANTS
    Sources,        \* the values of the view model
    Count,          \* the binds are 1..Count, in the order they were added
    kind,           \* bind -> "toTarget", "toSource" or "twoWay"
    source,         \* bind -> the value it reads or writes
    SourceFirst,    \* the binds with SourceToTargetRunsFirst
    Hides,          \* bind -> the bind whose component its target hides, or None
    Mirrors,        \* value -> the value that its delegate sets to the same, or None
    None,
    Values,         \* the numbers, 0 among them
    MaxChanges      \* bound: changes by the host and of computed properties

Binds == 1..Count
Kinds == {"toTarget", "toSource", "twoWay"}

ASSUME BindAssumption ==
    /\ Count \in Nat
    /\ kind \in [Binds -> Kinds] /\ source \in [Binds -> Sources] /\ SourceFirst \subseteq Binds
    /\ Hides \in [Binds -> Binds \cup {None}] /\ None \notin Binds
(* A value that a delegate sets has no delegate of its own.                *)
ASSUME ValueAssumption ==
    /\ 0 \in Values /\ Mirrors \in [Sources -> Sources \cup {None}] /\ None \notin Sources
    /\ \A s \in Sources : Mirrors[s] # None => Mirrors[Mirrors[s]] = None

toSource(b) == kind[b] \in {"toSource", "twoWay"}
toTarget(b) == kind[b] \in {"toTarget", "twoWay"}

(* The binds of a set, in the order they were added.                       *)
InOrder(P) ==
    CHOOSE s \in [1..Cardinality(P) -> P] : \A i, j \in DOMAIN s : i < j => s[i] < s[j]
Elements(s) == {s[j] : j \in DOMAIN s}

(* m_persistingDataBinds                                                   *)
Persisting == InOrder({b \in Binds : toSource(b)})

VARIABLES
    q,              \* the values, the properties and the lists, see Init
    pc, k, again,   \* where the pass is, the place in a list, the second time
    changes,        \* how many changes were made
    touched,        \* the binds whose property changed other than by the bind
                    \* since it was last polled
    overlooked      \* the binds whose property was set back, from what the bind
                    \* had put there, to what it saw last

pass == <<pc, k, again>>
vars == <<q, pass, changes, touched, overlooked>>

m_isProcessing == pc \in {"persisting", "dirty"}

-----------------------------------------------------------------------------
(* What a call does to q.                                                  *)

isCollapsed(r, b) == b \in r.hidden /\ ~toSource(b)

(* Artboard::addDirtyDataBind, and the one of the container, for each bind *)
(* of P: one that is in the list already is not added to it.               *)
addDirtyDataBind(r, P) ==
    LET flagged == [r EXCEPT !.more = @ \/ P # {}]
        Added(list) == InOrder({b \in P : ~toSource(b)} \ Elements(list))
    IN  IF m_isProcessing THEN [flagged EXCEPT !.pending = @ \o Added(@)]
                          ELSE [flagged EXCEPT !.dirty = @ \o Added(@)]

(* DataBind::addDirt of each bind of s; one of them may be suppressed.     *)
addDirt(r, s, suppressed) ==
    LET new == {b \in Binds : source[b] = s /\ b # suppressed} \ r.dirt
    IN  addDirtyDataBind([r EXCEPT !.dirt = @ \cup new], {b \in new : ~isCollapsed(r, b)})

(* propertyValueChanged, then the delegate of the value, a script or a     *)
(* listener that sets another one.                                         *)
SetValue(r, s, v, suppressed) ==
    IF r.value[s] = v THEN r ELSE addDirt([r EXCEPT !.value[s] = v], s, suppressed)

propertyValue(r, s, v, suppressed) ==
    IF r.value[s] = v THEN r
    ELSE LET set == SetValue(r, s, v, suppressed)
         IN  IF Mirrors[s] = None THEN set ELSE SetValue(set, Mirrors[s], v, suppressed)

(* MUTANT: a bind that is shown again is not queued.                       *)
CollapseOnly(r, b, value) ==
    [r EXCEPT !.more = TRUE, !.hidden = IF value THEN @ \cup {b} ELSE @ \ {b}]

(* DataBind::collapse: a bind that is shown again may be dirty.            *)
collapse(r, b, value) ==
    IF (b \in r.hidden) = value THEN r
    ELSE LET c == [r EXCEPT !.more = TRUE, !.hidden = IF value THEN @ \cup {b} ELSE @ \ {b}]
         IN  IF ~value /\ b \in r.dirt /\ ~toSource(b) THEN addDirtyDataBind(c, {b}) ELSE c

(* A property of a component is set.  It dirties the artboard, unless the  *)
(* component is hidden: that may be dirty since before.                    *)
SetProperty(r, b, v) ==
    IF r.prop[b] = v THEN r
    ELSE LET set == [r EXCEPT !.prop[b] = v, !.more = @ \/ b \notin r.hidden]
         IN  IF Hides[b] = None THEN set ELSE collapse(set, Hides[b], v # 0)

(* DataBind::updateSourceBinding, calculateValueAndApply: only a property  *)
(* that is not what was last seen is applied, and the bind does not hear   *)
(* of the change that it makes.                                            *)
updateSourceBinding(r, b) ==
    IF r.prop[b] = r.seen[b] /\ b \in r.valid THEN r
    ELSE propertyValue([r EXCEPT !.seen[b] = r.prop[b], !.valid = @ \cup {b}],
                       source[b], r.prop[b], b)

(* DataBind::update                                                        *)
update(r, b) == IF toTarget(b) THEN SetProperty(r, b, r.value[source[b]]) ELSE r

(* MUTANT: the property is applied first whatever the flag says.           *)
TargetFirst(r, b, applyTargetToSource) ==
    LET r1 == IF applyTargetToSource /\ toSource(b) THEN updateSourceBinding(r, b) ELSE r
    IN  IF b \in r.dirt THEN update([r1 EXCEPT !.dirt = @ \ {b}], b) ELSE r1

(* MUTANT: a bind that was polled is not updated from its source.          *)
PolledOnly(r, b, applyTargetToSource) ==
    LET clean == [r EXCEPT !.dirt = @ \ {b}]
    IN  IF applyTargetToSource /\ toSource(b) THEN updateSourceBinding(clean, b)
        ELSE IF b \in r.dirt THEN update(clean, b) ELSE r

(* DataBindContainer::updateDataBind; the dirt is the one at the start.    *)
updateDataBind(r, b, applyTargetToSource) ==
    LET polls == applyTargetToSource /\ toSource(b)
        r1 == IF polls /\ b \notin SourceFirst THEN updateSourceBinding(r, b) ELSE r
        r2 == IF b \in r.dirt THEN update([r1 EXCEPT !.dirt = @ \ {b}], b) ELSE r1
    IN  IF polls /\ b \in SourceFirst THEN updateSourceBinding(r2, b) ELSE r2

-----------------------------------------------------------------------------
(* The binds have just been bound: all dirty, those to targets queued.     *)
Init ==
    /\ \E value \in [Sources -> Values], prop \in [Binds -> Values] :
           q = [value |-> value, prop |-> prop,
                seen |-> [b \in Binds |-> 0],       \* the last property seen
                valid |-> {},                       \* m_isValid
                dirt |-> Binds,
                hidden |-> {h \in Binds : \E b \in Binds : Hides[b] = h /\ prop[b] # 0},
                dirty |-> InOrder({b \in Binds : ~toSource(b)}),
                pending |-> <<>>,
                more |-> TRUE]                      \* ComponentDirt::Components
    /\ pc = "idle" /\ k = 1 /\ again = FALSE
    /\ changes = 0
    /\ touched = Binds /\ overlooked = {}

(* Polled now, the bind would do nothing.                                  *)
NoNews(r, b) == r.prop[b] = r.seen[b] /\ b \notin r.dirt

Bounded == changes < MaxChanges /\ changes' = changes + 1

(* Between two passes the host sets a value, or an animation sets the      *)
(* property of a two-way bind.                                             *)
SetSource ==
    /\ pc = "idle" /\ Bounded
    /\ \E s \in Sources, v \in Values : q' = propertyValue(q, s, v, None)
    /\ UNCHANGED <<pass, touched, overlooked>>

SetTarget ==
    /\ pc = "idle" /\ Bounded
    /\ \E b \in Binds, v \in Values :
           /\ kind[b] = "twoWay" /\ q.prop[b] # v
           /\ q' = SetProperty(q, b, v)
           /\ touched' = touched \cup {b}
           /\ overlooked' = IF NoNews(q', b) /\ v # q'.value[source[b]]
                            THEN overlooked \cup {b} ELSE overlooked \ {b}
    /\ UNCHANGED pass

(* updateDataBinds: the binds that write sources are polled, all of them.  *)
StartPass ==
    /\ pc = "idle"
    /\ pc' = "persisting" /\ k' = 1 /\ again' = FALSE
    /\ UNCHANGED <<q, changes, touched, overlooked>>

canSkip(b) == b \in q.hidden

Poll ==
    /\ pc = "persisting" /\ k <= Len(Persisting)
    /\ LET b == Persisting[k]
       IN  IF canSkip(b) THEN UNCHANGED <<q, touched, overlooked>>
           ELSE /\ q' = updateDataBind(q, b, TRUE) /\ touched' = touched \ {b}
                /\ overlooked' = IF NoNews(q, b) THEN overlooked ELSE overlooked \ {b}
    /\ k' = k + 1 /\ UNCHANGED <<pc, again, changes>>

StartDirty ==
    /\ pc = "persisting" /\ k > Len(Persisting)
    /\ pc' = "dirty" /\ k' = 1
    /\ UNCHANGED <<q, again, changes, touched, overlooked>>

(* Then those that are dirty.                                              *)
UpdateDirty ==
    /\ pc = "dirty" /\ k <= Len(q.dirty)
    /\ q' = updateDataBind(q, q.dirty[k], FALSE)
    /\ k' = k + 1 /\ UNCHANGED <<pc, again, changes, touched, overlooked>>

(* What became dirty meanwhile is for the next time.                       *)
EndBinds ==
    /\ pc = "dirty" /\ k > Len(q.dirty)
    /\ q' = [q EXCEPT !.dirty = q.pending, !.pending = <<>>]
    /\ pc' = (IF again THEN "idle" ELSE "components") /\ k' = 1
    /\ UNCHANGED <<again, changes, touched, overlooked>>

(* MUTANT: the flag of the artboard is not reset.                          *)
KeepFlag ==
    /\ pc = "components"
    /\ pc' = (IF q.more THEN "persisting" ELSE "idle") /\ again' = q.more
    /\ UNCHANGED <<q, k, changes, touched, overlooked>>

(* updateComponents, and the binds again when there was something to do.   *)
(* A computed property is what the update left it.                         *)
UpdateComponents ==
    /\ pc = "components"
    /\ IF ~q.more THEN pc' = "idle" /\ UNCHANGED <<q, again, changes, touched>>
       ELSE /\ pc' = "persisting" /\ again' = TRUE
            /\ \/ /\ q' = [q EXCEPT !.more = FALSE] /\ UNCHANGED <<changes, touched>>
               \/ /\ Bounded
                  /\ \E b \in Binds, v \in Values :
                        /\ kind[b] = "toSource" /\ q.prop[b] # v
                        /\ q' = [q EXCEPT !.more = FALSE, !.prop[b] = v]
                        /\ touched' = touched \cup {b}
    /\ UNCHANGED <<k, overlooked>>

Frame == StartPass \/ Poll \/ StartDirty \/ UpdateDirty \/ EndBinds \/ UpdateComponents

Next == SetSource \/ SetTarget \/ Frame

(* The host keeps advancing its artboards.                                 *)
Spec == Init /\ [][Next]_vars /\ WF_vars(Frame)

-----------------------------------------------------------------------------
(* Properties.                                                             *)

(* A dirty bind that is shown will be updated: it waits in the list that   *)
(* is being worked through, at a place not yet passed, or in the next one. *)
DirtyIsQueued ==
    \A b \in q.dirt : ~toSource(b) /\ ~isCollapsed(q, b) =>
        \/ b \in Elements(q.pending)
        \/ \E j \in DOMAIN q.dirty : q.dirty[j] = b /\ (pc = "dirty" => j >= k)

(* When a pass ends and the artboard asks for no other, every bind that is *)
(* shown and goes to its target, in both directions too, shows what the    *)
(* view model holds, and every property that writes a value has been       *)
(* polled since it changed.  One change goes unnoticed: a two-way bind     *)
(* that applies its property first does not see its property set back to   *)
(* what it saw before it wrote there itself (calculateValueAndApply), and  *)
(* differs until its value or its property changes again.                  *)
RestMeansAgreement ==
    pc = "idle" /\ ~q.more => \A b \in Binds \ q.hidden :
        /\ toTarget(b) => q.prop[b] = q.value[source[b]] \/ b \in overlooked \ SourceFirst
        /\ toSource(b) => b \notin touched

(* A bind that applies its source first never writes back what it got from *)
(* there: it changes a value only when something else set its property.    *)
NoEcho ==
    [][pc = "persisting" /\ k <= Len(Persisting) /\ Persisting[k] \in SourceFirst \ touched
       => UNCHANGED q.value]_vars

(* Binds in both directions on one value do not keep each other busy: when *)
(* nothing outside changes, the artboard comes to rest and stays there.    *)
Settles == <>[](pc = "idle" => ~q.more)
=============================================================================
