------------------------- MODULE ApplicationFilter --------------------------
(***************************************************************************)
(* src/src/postConverter/filterByApplication.js: the part of a declaration *)
(* that one virtual server needs, moved to an application of the user's    *)
(* choice.  The search goes depth first through the properties of the      *)
(* virtual server and of what it finds; the JavaScript call stack is the   *)
(* variable stack.                                                         *)
(*                                                                         *)
(* Objects are paths <<tenant, application, name>>.  The properties of an  *)
(* object that are looked at stand in one sequence of slots.  A slot holds *)
(* a reference, a path or a word <<name>>, and its form says where it is:  *)
(*   value     a property, or a property of an object that is a property   *)
(*             or an element of one: the search follows and rewrites it;   *)
(*   element   an element of an array of plain values;                     *)
(*   nested    anything deeper, which is looked up as a whole, and in vain *)
(***************************************************************************)
EXTENDS Naturals, Sequences, FiniteSets

CONSTANTS
    Segments,       \* the names paths are made of
    Declarations,   \* functions from paths of objects to sequences of slots
    Vs,             \* the virtual server asked for
    Targets         \* <<tenant, application>> pairs one may ask for

Shared == <<"Common", "Shared">>
Ref == Seq(Segments) \ {<<>>}
Path == {r \in Ref : Len(r) = 3}
Application == {r \in Ref : Len(r) = 2}
AnySlot == [form : {"value", "element", "nested"}, ref : Ref]

ASSUME FilterAssumption ==
    /\ \A d \in Declarations : /\ DOMAIN d \subseteq Path /\ IsFiniteSet(DOMAIN d)
                               /\ d \in [DOMAIN d -> Seq(AnySlot)]
    /\ Vs \in Path
    /\ Targets \subseteq Application /\ Shared \in Application

VARIABLES
    original,       \* the declaration
    decl,           \* the copy of it that the search rewrites
    target,         \* the tenant and application to move to
    stack,          \* calls of searchForDependents: an object and a slot
    dependents,     \* the objects found, by their name alone
    visited,        \* history: the objects found
    status          \* "searching", "done", "failed", "unchanged"

vars == <<original, decl, target, stack, dependents, visited, status>>

NoObject == <<>>
NameOf(ref) == ref[Len(ref)]
AppOf(ref) == SubSeq(ref, 1, 2)
App == AppOf(Vs)
Objects == DOMAIN original
Apps == {AppOf(o) : o \in Objects}
-----------------------------------------------------------------------------
(* Slips one could make in the definitions below, for the mutation runs.   *)
NotAProperty(slot) == slot.form # "value"

KeepName(ref) == ref

StayOnSlot(s) == s

ThrowsWhenMissing(ref) == Len(ref) = 3 /\ ref \notin Objects
-----------------------------------------------------------------------------
(* searchforObject: in the application a path names, or in that of the     *)
(* virtual server, and else in /Common/Shared.                             *)
Find(ref) ==
    LET here == Append(IF Len(ref) = 3 THEN AppOf(ref) ELSE App, NameOf(ref))
        common == Append(Shared, NameOf(ref))
    IN  CASE here \in Objects -> here
          [] here \notin Objects /\ common \in Objects -> common
          [] OTHER -> NoObject

(* The property of an application that does not exist is read.             *)
Throws(ref) == Len(ref) = 3 /\ AppOf(ref) \notin Apps

Nested(slot) == slot.form = "nested"

(* The new name, for an object of another application (56-58).             *)
NewName(ref) == IF AppOf(Find(ref)) # App THEN Append(target, NameOf(ref)) ELSE ref

WithDependent(name, o) ==
    [n \in DOMAIN dependents \cup {name} |-> IF n = name THEN o ELSE dependents[n]]

Top == stack[Len(stack)]
Slots == decl[Top.object]
Slot == Slots[Top.slot]

(* The stack of calls after the slot of the topmost one.                   *)
NextSlot(s) == [s EXCEPT ![Len(s)].slot = @ + 1]

(* vsName not found (132-135): the declaration is returned as it is.       *)
Init == /\ original \in Declarations
        /\ decl = original
        /\ target \in Targets
        /\ stack = <<[object |-> Vs, slot |-> 1]>>
        /\ dependents = [n \in {"serviceMain"} |-> Vs]
        /\ visited = {Vs}
        /\ status = IF Vs \in Objects THEN "searching" ELSE "unchanged"

AtSlot == status = "searching" /\ Top.slot <= Len(Slots)

(* Nothing of that name: the slot is left as it is.                        *)
Pass == /\ AtSlot
        /\ \/ Nested(Slot)
           \/ ~ Nested(Slot) /\ ~ Throws(Slot.ref) /\ Find(Slot.ref) = NoObject
        /\ stack' = NextSlot(stack)
        /\ UNCHANGED <<original, decl, target, dependents, visited, status>>

(* An object is found, entered under its name, and searched in turn.  A    *)
(* call stack higher than there are objects never ends growing.            *)
Descend == /\ AtSlot
           /\ ~ Nested(Slot) /\ ~ Throws(Slot.ref)
           /\ Find(Slot.ref) # NoObject
           /\ Len(stack) <= Cardinality(Objects)
           /\ dependents' = WithDependent(NameOf(Slot.ref), Find(Slot.ref))
           /\ visited' = visited \cup {Find(Slot.ref)}
           /\ stack' = Append(stack, [object |-> Find(Slot.ref), slot |-> 1])
           /\ UNCHANGED <<original, decl, target, status>>

(* Back in the caller, the name is written to the slot; for an element of  *)
(* an array to a variable of the loop only (91).                           *)
Return == /\ status = "searching"
          /\ Top.slot > Len(Slots) /\ Len(stack) > 1
          /\ LET caller == stack[Len(stack) - 1]
                 slot == decl[caller.object][caller.slot]
             IN  decl' = IF slot.form = "value"
                         THEN [decl EXCEPT ![caller.object][caller.slot].ref = NewName(@)]
                         ELSE decl
          /\ stack' = NextSlot(SubSeq(stack, 1, Len(stack) - 1))
          /\ UNCHANGED <<original, target, dependents, visited, status>>

Finish == /\ status = "searching"
          /\ Top.slot > Len(Slots) /\ Len(stack) = 1
          /\ status' = "done"
          /\ UNCHANGED <<original, decl, target, stack, dependents, visited>>

(* The error of a lookup, or of a call stack that is full, ends it all.    *)
Fail == /\ AtSlot
        /\ ~ Nested(Slot)
        /\ \/ Throws(Slot.ref)
           \/ Find(Slot.ref) # NoObject /\ Len(stack) > Cardinality(Objects)
        /\ status' = "failed"
        /\ UNCHANGED <<original, decl, target, stack, dependents, visited>>

Next == Pass \/ Descend \/ Return \/ Finish \/ Fail

Spec == Init /\ [][Next]_vars /\ WF_vars(Next)
-----------------------------------------------------------------------------
IsPath(ref) == Len(ref) = 3

(* The objects a reference of the declaration may mean: one of its name in *)
(* the application it names, or in /Common/Shared.                         *)
Meant(ref) ==
    {o \in Objects : /\ NameOf(o) = NameOf(ref)
                     /\ AppOf(o) \in {IF IsPath(ref) THEN AppOf(ref) ELSE App, Shared}}

Followed(o) == {i \in DOMAIN original[o] : original[o][i].form # "nested"}

Graph == [o \in Objects |-> UNION {Meant(original[o][i].ref) : i \in Followed(o)}]

(* Nothing is claimed of a declaration that has two objects of a name: the *)
(* result holds them by their names, and a rewritten path can lead to the  *)
(* other one.                                                              *)
Clear == \A o, d \in Objects : NameOf(o) = NameOf(d) => o = d

R == INSTANCE ReachableObjects
     WITH graph <- Graph, start <- Vs,
          collected <- IF Clear THEN visited ELSE {Vs},
          outcome <- IF Clear /\ status # "unchanged" /\ status # "searching"
                     THEN status ELSE "open"

(* The search collects what the virtual server needs and nothing else, and *)
(* it ends in success only when nothing is missing, though it rewrites the *)
(* references it walks along on the way (23-111).                          *)
FindsTheReachable == R!Spec

(* The search comes to an end: objects that refer to each other make the   *)
(* recursion overflow the call stack, and that error ends it (60, 166).    *)
SearchEnds == <>(status # "searching")

LeadsInResult(ref) ==
    NameOf(ref) \in DOMAIN dependents /\ (IsPath(ref) => AppOf(ref) = target)

(* In the result every reference leads to the object it led to before,     *)
(* which has moved with it (44-59).  Two kinds do not: paths to objects of *)
(* the application itself, which keep the old application though the       *)
(* objects move, and paths in arrays of plain values, which are not        *)
(* written back (91).                                                      *)
ReferencesMoveAlong ==
    status = "done" /\ Clear =>
        \A o \in visited : \A i \in Followed(o) :
            LET was == original[o][i].ref
            IN  Meant(was) # {} =>
                    \/ LeadsInResult(decl[o][i].ref)
                    \/ IsPath(was) /\ Meant(was) \subseteq {d \in Objects : AppOf(d) = App}
                    \/ IsPath(was) /\ original[o][i].form = "element"

(* Objects that refer to each other.                                       *)
Cyclic == \E s \in (SUBSET visited) \ {{}} : \A o \in s : Graph[o] \cap s # {}

(* A value that looks like a path into an application that is not there.   *)
Foreign == \E o \in visited : \E i \in Followed(o) : Throws(original[o][i].ref)

(* The references of the objects found that mean o.                        *)
Referrers(o) ==
    UNION {{<<r, i>> : i \in {i \in Followed(r) : o \in Meant(original[r][i].ref)}} : r \in visited}

(* A new target: a reference that was rewritten leads to nothing that      *)
(* exists yet, and with an object that two others need it is read again.   *)
Revisited ==
    /\ target \notin Apps
    /\ \E o \in visited : \E i \in Followed(o) : decl[o][i].ref # original[o][i].ref
    /\ \E o \in visited : \E a, b \in Referrers(o) : a # b

(* The filter gives the conversion up for one of three reasons only:       *)
(* objects that refer to each other, a value with the form of a path that  *)
(* leads into no application of the declaration (the URL of a redirect),   *)
(* and a new target with an object that two others share.                  *)
GivesUpOnlyForCause ==
    status = "failed" /\ Clear => Cyclic \/ Foreign \/ Revisited
=============================================================================
